---- MODULE Spec2Model ----
(***************************************************************************)
(* scripts/generate-orders.py: a generator of random order events.         *)
(*                                                                         *)
(* Two parts of the script are modelled.                                   *)
(*  - generate_order(order_num), step by step (SpecGen): the draws of the  *)
(*    person and the location, the draw of the number of lines, one step   *)
(*    per iteration of the line loop, and the return of the record.        *)
(*    The process-wide random source is nondeterminism.                    *)
(*  - main(), step by step (Spec, FairSpec): the parse of sys.argv, the    *)
(*    for loop, the write of a record to stdout and the write of a         *)
(*    progress notice to stderr.                                           *)
(*                                                                         *)
(* Money is in cents (249.99 is 24999).  Text that the script takes apart  *)
(* (the invocation argument) is a sequence of one-character strings; text  *)
(* it only puts together is a TLA+ string.  An optional value is <<>>      *)
(* (Python None) or <<v>>.                                                 *)
(*                                                                         *)
(* Of the record, the model keeps the fields that derive from the person,  *)
(* the location, the product, the loop index and order_num, and the fixed  *)
(* fields.  The fields that are drawn independently and read by nothing    *)
(* else (uuid, customer_id, order_type, channel, fulfillment_type, street  *)
(* number, postal code, phone number) and the three time stamps are left   *)
(* out.  A line written to stdout is kept as the ordinal of the record's   *)
(* notes.                                                                  *)
(***************************************************************************)
EXTENDS Integers, Sequences, FiniteSets, TLC

VARIABLES
    \* main()
    pc, argv, count, i, stdout, stderr, exit_code,
    \* generate_order()
    gpc, order_num, first_name, last_name, full_name, email, city, state,
    num_lines, line_i, order_lines, order

mainVars == <<pc, argv, count, i, stdout, stderr, exit_code>>
genVars == <<gpc, order_num, first_name, last_name, full_name, email, city, state,
             num_lines, line_i, order_lines, order>>
vars == <<mainVars, genVars>>

----------------------------------------------------------------------------
\* Bounds of the model.

\* random.choice draws among the first MaxChoice entries of a table.
MaxChoice == 2
\* The product of a line is drawn among the first MaxProduct entries of PRODUCTS.
MaxProduct == 4
\* The counts given on the command line range over -MaxNegCount..MaxCount.
MaxCount == 250
MaxNegCount == 2

Min(a, b) == IF a < b THEN a ELSE b

----------------------------------------------------------------------------
\* The reference tables.

FIRST_NAMES == <<"John", "Jane", "Michael", "Sarah", "David", "Emily", "Robert",
                 "Lisa", "William", "Jennifer">>
LAST_NAMES == <<"Doe", "Smith", "Johnson", "Williams", "Brown", "Jones", "Garcia",
                "Miller", "Davis", "Martinez">>
CITIES_STATES == <<
    <<"San Francisco", "CA">>, <<"New York", "NY">>, <<"Los Angeles", "CA">>,
    <<"Chicago", "IL">>, <<"Seattle", "WA">>, <<"Portland", "OR">>,
    <<"Austin", "TX">>, <<"Denver", "CO">>, <<"Boston", "MA">>, <<"Miami", "FL">> >>

PRODUCTS == <<
    <<1000000001, "Apple AirPods Pro 2nd Gen", 24999, "Wireless earbuds with active noise cancellation">>,
    <<1000000002, "Sony WH-1000XM5 Headphones", 34999, "Premium wireless noise-canceling headphones">>,
    <<1000000003, "Anker USB-C Charging Cable 6ft", 1999, "Braided nylon fast charging cable">>,
    <<1000000004, "Nike Air Max 270 Running Shoes", 15999, "Lightweight running shoes with Air Max cushioning">>,
    <<1000000005, "Lululemon Yoga Mat 5mm", 7800, "Non-slip yoga mat with alignment lines">>,
    <<1000000006, "Kindle Paperwhite 11th Gen", 14999, "E-reader with 6.8 inch display">>,
    <<1000000007, "MacBook Pro 16-inch M3 Max", 349900, "Apple laptop with M3 Max chip">>,
    <<1000000008, "Dell UltraSharp 32 4K Monitor", 89999, "32-inch 4K USB-C Hub Monitor">>,
    <<1000000009, "Dyson V15 Detect Vacuum", 74999, "Cordless vacuum with laser detection">>,
    <<1000000010, "Samsung Galaxy S24 Ultra", 129999, "Flagship smartphone with S Pen">>,
    <<1000000011, "Bose QuietComfort Ultra", 42900, "Premium noise canceling headphones">>,
    <<1000000012, "Apple Watch Series 9", 39900, "Smartwatch with health tracking">>,
    <<1000000013, "Nintendo Switch OLED", 34999, "Gaming console with OLED screen">>,
    <<1000000014, "Instant Pot Duo 7-in-1", 8999, "Multi-use pressure cooker">>,
    <<1000000015, "Nespresso VertuoPlus", 17900, "Coffee and espresso machine">> >>

\* str.lower() on the names of the tables.
Lower(s) ==
    CASE s = "John" -> "john" [] s = "Jane" -> "jane" [] s = "Michael" -> "michael"
      [] s = "Sarah" -> "sarah" [] s = "David" -> "david" [] s = "Emily" -> "emily"
      [] s = "Robert" -> "robert" [] s = "Lisa" -> "lisa" [] s = "William" -> "william"
      [] s = "Jennifer" -> "jennifer"
      [] s = "Doe" -> "doe" [] s = "Smith" -> "smith" [] s = "Johnson" -> "johnson"
      [] s = "Williams" -> "williams" [] s = "Brown" -> "brown" [] s = "Jones" -> "jones"
      [] s = "Garcia" -> "garcia" [] s = "Miller" -> "miller" [] s = "Davis" -> "davis"
      [] s = "Martinez" -> "martinez"

----------------------------------------------------------------------------
\* The random source.

\* random.choice(table): one entry of the table.
Choice(table) == {table[k] : k \in 1..Min(MaxChoice, Len(table))}

\* random.randint(lo, hi): an integer of lo..hi, both ends included.
RandInt(lo, hi) == lo..hi

\* random.random() < 0.2
DiscountDrawn == BOOLEAN

None == <<>>
Some(v) == <<v>>

----------------------------------------------------------------------------
\* generate_order(order_num)

\* f"{first_name} {last_name}"
FullName(first, last) == first \o " " \o last

\* f"{first_name.lower()}.{last_name.lower()}@example.com"
Email(first, last) == Lower(first) \o "." \o Lower(last) \o "@example.com"

\* A city paired with the state of any entry.
CityStateDrawsIndependent ==
    {<<a[1], b[2]>> : a \in Choice(CITIES_STATES), b \in Choice(CITIES_STATES)}

\* city, state = random.choice(CITIES_STATES)
CityStateDraws == Choice(CITIES_STATES)

\* product = random.choice(PRODUCTS)
ProductDraws == {PRODUCTS[k] : k \in 1..Min(MaxProduct, Len(PRODUCTS))}

\* A draw that may give no line at all.
NumLinesDrawsFromZero == RandInt(0, 3)

\* num_lines = random.randint(1, 3)
NumLinesDraws == RandInt(1, 3)

\* quantity = random.randint(1, 3)
QuantityDraws == RandInt(1, 3)

\* round(x / 10) for x in cents: the nearest cent, a tie to the even cent.
\* No price of PRODUCTS ends in 5, so the tie is never taken.
RoundTenth(x) ==
    LET q == x \div 10
        r == x % 10
    IN  IF r < 5 THEN q
        ELSE IF r > 5 THEN q + 1
        ELSE IF q % 2 = 0 THEN q ELSE q + 1

\* The discount cut to the cent below instead of rounded.
DiscountTruncated(price, drawn) == IF drawn THEN Some(price \div 10) ELSE None

\* round(price * 0.1, 2) if random.random() < 0.2 else None
Discount(price, drawn) == IF drawn THEN Some(RoundTenth(price)) ELSE None

\* The address record of a line ("shipping_address") and of the order
\* ("billing_address"): the same expression in both places.
Address(name, c, s, mail) ==
    [full_name |-> name, address_line2 |-> None, city |-> c,
     state_province |-> s, country |-> "USA", email |-> mail]

\* A shipping address that takes the first city of the table, not the order's.
ShippingAddressOwnCity(name, c, s, mail) ==
    Address(name, CITIES_STATES[1][1], CITIES_STATES[1][2], mail)

ShippingAddress(name, c, s, mail) == Address(name, c, s, mail)

BillingAddress(name, c, s, mail) == Address(name, c, s, mail)

\* A line numbered from 0.
OrderLineZeroBased(n, product, quantity, discount, shipping) ==
    [line_number |-> n - 1,
     item_id |-> product[1],
     item_name |-> product[2],
     item_description |-> product[4],
     quantity |-> quantity,
     unit_price |-> product[3],
     currency |-> "USD",
     tax_rate |-> 8,
     discount_amount |-> discount,
     shipping_address |-> shipping]

\* A line whose price is the price of the first product of the table.
OrderLineFirstPrice(n, product, quantity, discount, shipping) ==
    [line_number |-> n,
     item_id |-> product[1],
     item_name |-> product[2],
     item_description |-> product[4],
     quantity |-> quantity,
     unit_price |-> PRODUCTS[1][3],
     currency |-> "USD",
     tax_rate |-> 8,
     discount_amount |-> discount,
     shipping_address |-> shipping]

\* The record appended to order_lines in iteration n of the loop.
OrderLine(n, product, quantity, discount, shipping) ==
    [line_number |-> n,
     item_id |-> product[1],
     item_name |-> product[2],
     item_description |-> product[4],
     quantity |-> quantity,
     unit_price |-> product[3],
     currency |-> "USD",
     tax_rate |-> 8,
     discount_amount |-> discount,
     shipping_address |-> shipping]

\* f"Order #{order_num} - Generated for testing": the ordinal of the note.
Notes(num) == num

\* The record returned.
OrderRecord(lines, billing, num) ==
    [order_lines |-> lines, billing_address |-> billing, notes |-> Notes(num)]

\* first_name, last_name, full_name, email, city, state are set once.
Gen_Identity ==
    /\ gpc = "entry"
    /\ \E first \in Choice(FIRST_NAMES), last \in Choice(LAST_NAMES), cs \in CityStateDraws :
          /\ first_name' = first
          /\ last_name' = last
          /\ full_name' = FullName(first, last)
          /\ email' = Email(first, last)
          /\ city' = cs[1]
          /\ state' = cs[2]
    /\ gpc' = "num_lines"
    /\ UNCHANGED <<order_num, num_lines, line_i, order_lines, order, mainVars>>

\* num_lines is drawn and order_lines starts empty.
Gen_NumLines ==
    /\ gpc = "num_lines"
    /\ num_lines' \in NumLinesDraws
    /\ order_lines' = <<>>
    /\ line_i' = 0
    /\ gpc' = "for"
    /\ UNCHANGED <<order_num, first_name, last_name, full_name, email, city, state,
                   order, mainVars>>

\* One iteration of  for i in range(1, num_lines + 1).
Gen_Line ==
    /\ gpc = "for"
    /\ line_i + 1 <= num_lines
    /\ line_i' = line_i + 1
    /\ \E product \in ProductDraws, quantity \in QuantityDraws, drawn \in DiscountDrawn :
          order_lines' = Append(order_lines,
              OrderLine(line_i', product, quantity, Discount(product[3], drawn),
                        ShippingAddress(full_name, city, state, email)))
    /\ UNCHANGED <<gpc, order_num, first_name, last_name, full_name, email, city, state,
                   num_lines, order, mainVars>>

\* The loop is over: the record is assembled and returned.
Gen_Return ==
    /\ gpc = "for"
    /\ line_i + 1 > num_lines
    /\ order' = Some(OrderRecord(order_lines,
                                 BillingAddress(full_name, city, state, email), order_num))
    /\ gpc' = "returned"
    /\ UNCHANGED <<order_num, first_name, last_name, full_name, email, city, state,
                   num_lines, line_i, order_lines, mainVars>>

----------------------------------------------------------------------------
\* main()

\* sys.argv[0]
ScriptName == <<"g", "e", "n", "e", "r", "a", "t", "e", "-", "o", "r", "d", "e", "r", "s", ".", "p", "y">>

DigitChars == <<"0", "1", "2", "3", "4", "5", "6", "7", "8", "9">>

IsDigit(c) == \E d \in 1..10 : DigitChars[d] = c

DigitValue(c) == (CHOOSE d \in 1..10 : DigitChars[d] = c) - 1

\* str(n) for an integer n: the text a caller passes for the count n.
RECURSIVE DecNat(_)
DecNat(n) == IF n < 10 THEN <<DigitChars[n + 1]>>
             ELSE Append(DecNat(n \div 10), DigitChars[(n % 10) + 1])

Dec(n) == IF n < 0 THEN <<"-">> \o DecNat(-n) ELSE DecNat(n)

\* s.strip(): int() ignores the white space around the literal.
RECURSIVE StripLeft(_)
StripLeft(s) == IF s # <<>> /\ Head(s) = " " THEN StripLeft(Tail(s)) ELSE s

RECURSIVE StripRight(_)
StripRight(s) == IF s # <<>> /\ s[Len(s)] = " " THEN StripRight(SubSeq(s, 1, Len(s) - 1)) ELSE s

Strip(s) == StripRight(StripLeft(s))

\* The value of a sequence of decimal digits.
RECURSIVE DigitsValue(_)
DigitsValue(s) == IF s = <<>> THEN 0
                  ELSE 10 * DigitsValue(SubSeq(s, 1, Len(s) - 1)) + DigitValue(s[Len(s)])

\* int(s) for a text s of sign, digit and other characters: white space
\* around, an optional sign, at least one digit and nothing else; anything
\* else raises ValueError (ok is FALSE).
ParseInt(s) ==
    LET t == Strip(s)
        signed == t # <<>> /\ Head(t) \in {"+", "-"}
        digits == IF signed THEN Tail(t) ELSE t
        valid == digits # <<>> /\ \A k \in 1..Len(digits) : IsDigit(digits[k])
    IN  IF ~valid THEN [ok |-> FALSE, val |-> 0]
        ELSE [ok |-> TRUE,
              val |-> IF signed /\ Head(t) = "-" THEN -DigitsValue(digits)
                      ELSE DigitsValue(digits)]

\* A parse that falls back to the default when the argument is no integer.
CountOfArgvDefaulting(av) ==
    IF Len(av) > 1 /\ ParseInt(av[2]).ok THEN ParseInt(av[2]) ELSE [ok |-> TRUE, val |-> 10]

\* count = int(sys.argv[1]) if len(sys.argv) > 1 else 10
CountOfArgv(av) == IF Len(av) > 1 THEN ParseInt(av[2]) ELSE [ok |-> TRUE, val |-> 10]

\* The test on the ordinal counted from 0.
ProgressDueFromZero(n) == (n - 1) % 100 = 0

\* if i % 100 == 0
ProgressDue(n) == n % 100 = 0

\* A range over the magnitude of the count.
RangeHasNextMagnitude(n, c) == n + 1 <= (IF c < 0 THEN 0 - c ELSE c)

\* Whether range(1, count + 1) has an element after n.
RangeHasNext(n, c) == n + 1 <= c

\* json.dumps(generate_order(n)): the line of the record, kept as its notes.
RecordLine(n) == [kind |-> "record", notes |-> Notes(n)]

\* f"  Generated {i}/{count} orders..."
NoticeLine(n, c) == [kind |-> "notice", done |-> n, total |-> c]

\* The traceback the interpreter writes for an uncaught exception.
TracebackLine == [kind |-> "traceback", done |-> 0, total |-> 0]

\* Texts that are no integer literal, and integer literals in other forms.
OtherArgs == {
    <<>>, <<"a", "b", "c">>, <<"1", ".", "5">>, <<"-">>, <<"1", "2", "a">>,
    <<"1", " ", "0">>, <<"-", "-", "1">>, <<" ">>,
    <<" ", "7", " ">>, <<"+", "5">>, <<"0", "0", "3">>, <<"-", "0">> }

\* The command lines: no argument, one argument, or a second one that is ignored.
ArgvChoices ==
    {<<ScriptName>>}
    \cup {<<ScriptName, Dec(n)>> : n \in (0 - MaxNegCount)..MaxCount}
    \cup {<<ScriptName, a>> : a \in OtherArgs}
    \cup {<<ScriptName, <<"3">>, <<"x">> >>}

Main_ParseArgs ==
    /\ pc = "start"
    /\ LET r == CountOfArgv(argv)
       IN  IF r.ok
           THEN /\ count' = r.val
                /\ pc' = "for"
                /\ UNCHANGED <<stderr, exit_code>>
           ELSE /\ pc' = "failed"
                /\ stderr' = Append(stderr, TracebackLine)
                /\ exit_code' = Some(1)
                /\ UNCHANGED count
    /\ UNCHANGED <<argv, i, stdout, genVars>>

\* The next i of the loop: the record of generate_order(i) goes to stdout.
Main_PrintOrder ==
    /\ pc = "for"
    /\ RangeHasNext(i, count)
    /\ i' = i + 1
    /\ stdout' = Append(stdout, RecordLine(i'))
    /\ pc' = "if"
    /\ UNCHANGED <<argv, count, stderr, exit_code, genVars>>

\* The progress notice printed without file=sys.stderr.
Main_ProgressToStdout ==
    /\ pc = "if"
    /\ IF ProgressDue(i)
       THEN stdout' = Append(stdout, NoticeLine(i, count))
       ELSE UNCHANGED stdout
    /\ pc' = "for"
    /\ UNCHANGED <<argv, count, i, stderr, exit_code, genVars>>

\* if i % 100 == 0: the progress notice goes to stderr.
Main_Progress ==
    /\ pc = "if"
    /\ IF ProgressDue(i)
       THEN stderr' = Append(stderr, NoticeLine(i, count))
       ELSE UNCHANGED stderr
    /\ pc' = "for"
    /\ UNCHANGED <<argv, count, i, stdout, exit_code, genVars>>

\* The range is exhausted: main returns and the process exits with 0.
Main_Exit ==
    /\ pc = "for"
    /\ ~RangeHasNext(i, count)
    /\ pc' = "done"
    /\ exit_code' = Some(0)
    /\ UNCHANGED <<argv, count, i, stdout, stderr, genVars>>

----------------------------------------------------------------------------
\* The specifications.

\* The arguments generate_order is called with.
OrderNums == {1, 100}

MainInit ==
    /\ pc = "start"
    /\ count = 0
    /\ i = 0
    /\ stdout = <<>>
    /\ stderr = <<>>
    /\ exit_code = None

GenInit ==
    /\ gpc = "entry"
    /\ first_name = ""
    /\ last_name = ""
    /\ full_name = ""
    /\ email = ""
    /\ city = ""
    /\ state = ""
    /\ num_lines = 0
    /\ line_i = 0
    /\ order_lines = <<>>
    /\ order = None

\* A run of the script.
Init ==
    /\ MainInit
    /\ argv \in ArgvChoices
    /\ GenInit
    /\ order_num = 1

Next == Main_ParseArgs \/ Main_PrintOrder \/ Main_Progress \/ Main_Exit

Spec == Init /\ [][Next]_vars

\* The interpreter runs the script to its end: a step that can be taken is taken.
FairSpec == Spec /\ WF_vars(Next)

\* A call of generate_order.
InitGen ==
    /\ MainInit
    /\ argv = <<ScriptName>>
    /\ GenInit
    /\ order_num \in OrderNums

NextGen == Gen_Identity \/ Gen_NumLines \/ Gen_Line \/ Gen_Return

SpecGen == InitGen /\ [][NextGen]_vars

----------------------------------------------------------------------------
\* Properties of main().

Abs(x) == IF x < 0 THEN 0 - x ELSE x

\* The progress notices among the lines of a stream.
Notices(stream) == {k \in 1..Len(stream) : stream[k].kind = "notice"}

\* C1: a run that ends normally for a count >= 0 has written exactly count
\* records to stdout and exactly count \div 100 progress notices to stderr,
\* the k-th of them for the ordinal 100 * k; so none for count = 0, and the
\* two of 100 and 200 for count = 250.
C1_RecordsAndNotices ==
    (pc = "done" /\ count >= 0) =>
        /\ Len(stdout) = count
        /\ \A k \in 1..Len(stdout) : stdout[k].kind = "record"
        /\ Len(stderr) = count \div 100
        /\ \A k \in 1..Len(stderr) :
              /\ stderr[k].kind = "notice"
              /\ stderr[k].done = 100 * k
              /\ stderr[k].done \in 1..count
        /\ (count = 0 => stdout = <<>> /\ stderr = <<>>)
        /\ (count = 250 => Len(stdout) = 250 /\ Len(stderr) = 2)

C1_Witness ==
    /\ pc = "done"
    /\ count = 250
    /\ Len(stdout) = 250
    /\ Len(stderr) = 2
    /\ stderr[1].done = 100
    /\ stderr[2].done = 200

\* C2: once the argument that is no integer has been parsed, the run has
\* failed with a non-zero exit status, stdout is empty and stderr holds no
\* progress notice; without an argument the count is 10.
C2_MalformedArgument ==
    /\ (pc # "start" /\ Len(argv) > 1 /\ ~ParseInt(argv[2]).ok) =>
          /\ pc = "failed"
          /\ exit_code # None
          /\ exit_code # Some(0)
          /\ stdout = <<>>
          /\ Notices(stderr) = {}
    /\ (pc # "start" /\ Len(argv) = 1) => (pc # "failed" /\ count = 10)

C2_Witness ==
    /\ pc = "failed"
    /\ argv = <<ScriptName, <<"a", "b", "c">> >>
    /\ exit_code = Some(1)
    /\ stdout = <<>>

\* C9: the k-th line of stdout is the record of ordinal k and nothing else
\* is on stdout; stderr holds no record; the notice of ordinal 100 * k is
\* written when record 100 * k has been written, and is there before
\* record 100 * k + 1 is written.
C9_OrderOfWrites ==
    /\ \A k \in 1..Len(stdout) : stdout[k].kind = "record" /\ stdout[k].notes = k
    /\ \A k \in 1..Len(stderr) : stderr[k].kind # "record"
    /\ pc # "failed" =>
          /\ \A k \in 1..Len(stderr) :
                /\ stderr[k].kind = "notice"
                /\ stderr[k].done = 100 * k
                /\ stderr[k].done <= Len(stdout)
          /\ \A k \in 1..Len(stdout) :
                (k % 100 = 0 /\ Len(stdout) > k) => Len(stderr) >= k \div 100

C9_Witness ==
    /\ pc = "for"
    /\ count > 100
    /\ Len(stdout) = 100
    /\ stdout[100].notes = 100
    /\ Len(stderr) = 1
    /\ stderr[1].done = 100

\* C10: a run whose argument parsed ends normally with exit status 0,
\* whatever the count; with a negative count it has written nothing.
C10_Terminates ==
    /\ (pc = "for") ~> (pc = "done" /\ exit_code = Some(0))
    /\ [](pc \in {"for", "if", "done"} /\ count < 0 => stdout = <<>> /\ stderr = <<>>)

C10_Witness ==
    /\ pc = "done"
    /\ count < 0
    /\ exit_code = Some(0)
    /\ stdout = <<>>
    /\ stderr = <<>>

----------------------------------------------------------------------------
\* Properties of generate_order().

\* The tables as sets.
Range(table) == {table[k] : k \in 1..Len(table)}

\* The record returned, once it is.
Returned == order # None

Lines == order[1].order_lines

\* The addresses of the record returned: billing, and shipping of each line.
Addresses == {order[1].billing_address}
             \cup {Lines[k].shipping_address : k \in 1..Len(Lines)}

\* C3: in the record returned every shipping address has the email, the
\* full name, the city and the state of the billing address, and the email
\* is the lower-case first.last@example.com of the full name.
C3_OneIdentity ==
    Returned =>
        LET b == order[1].billing_address
        IN  /\ \A a \in Addresses :
                  /\ a.email = b.email
                  /\ a.full_name = b.full_name
                  /\ a.city = b.city
                  /\ a.state_province = b.state_province
            /\ \E f \in Range(FIRST_NAMES), l \in Range(LAST_NAMES) :
                  /\ b.full_name = f \o " " \o l
                  /\ b.email = Lower(f) \o "." \o Lower(l) \o "@example.com"

C3_Witness ==
    /\ Returned
    /\ Len(Lines) = 3
    /\ order[1].billing_address.city = "New York"
    /\ order[1].billing_address.full_name = "Jane Smith"
    /\ Lines[3].shipping_address.email = "jane.smith@example.com"

\* C4: in the record returned the line numbers are 1, 2, ..., len(order_lines)
\* in sequence order.
C4_LineNumbers ==
    Returned => \A k \in 1..Len(Lines) : Lines[k].line_number = k

C4_Witness ==
    /\ Returned
    /\ Len(Lines) = 3
    /\ Lines[1].line_number = 1
    /\ Lines[3].line_number = 3

\* C5: the record returned has 1 to 3 lines, and every line a quantity of
\* 1 to 3.
C5_LineAndQuantityRange ==
    Returned =>
        /\ Len(Lines) >= 1
        /\ Len(Lines) <= 3
        /\ \A k \in 1..Len(Lines) : Lines[k].quantity >= 1 /\ Lines[k].quantity <= 3

C5_Witness ==
    /\ Returned
    /\ order[1].notes = 100
    /\ Len(Lines) = 3
    /\ Lines[1].quantity = 1
    /\ Lines[2].quantity = 3

\* C6: id, name, price and description of every line are those of one entry
\* of PRODUCTS.
C6_ProductTuple ==
    Returned =>
        \A k \in 1..Len(Lines) :
            <<Lines[k].item_id, Lines[k].item_name, Lines[k].unit_price,
              Lines[k].item_description>> \in Range(PRODUCTS)

C6_Witness ==
    /\ Returned
    /\ Len(Lines) = 2
    /\ Lines[1].item_id = PRODUCTS[2][1]
    /\ Lines[1].unit_price = PRODUCTS[2][3]
    /\ Lines[2].item_id = PRODUCTS[3][1]
    /\ Lines[2].unit_price = PRODUCTS[3][3]

\* C7: the discount of a line is absent, or the cent amount nearest to a
\* tenth of the unit price of that line.
C7_Discount ==
    Returned =>
        \A k \in 1..Len(Lines) :
            \/ Lines[k].discount_amount = None
            \/ /\ Len(Lines[k].discount_amount) = 1
               /\ Abs(10 * Lines[k].discount_amount[1] - Lines[k].unit_price) < 5

C7_Witness ==
    /\ Returned
    /\ Len(Lines) = 2
    /\ Lines[1].discount_amount = None
    /\ Lines[2].discount_amount = Some(200)
    /\ Lines[2].unit_price = 1999

\* C8: city and state of every address are the two halves of one entry of
\* CITIES_STATES.
C8_CityStatePair ==
    Returned =>
        \A a \in Addresses : <<a.city, a.state_province>> \in Range(CITIES_STATES)

C8_Witness ==
    /\ Returned
    /\ Len(Lines) = 2
    /\ order[1].billing_address.city = "New York"
    /\ order[1].billing_address.state_province = "NY"
    /\ Lines[2].shipping_address.state_province = "NY"

====
